---------------------------- MODULE Spec2Model ----------------------------
(***************************************************************************)
(* A model of the FHIR facade (app/main.py, app/resources/patient.py,      *)
(* app/resources/observation.py, app/resources/capability_statement.py,    *)
(* app/utils.py, app/db.py, app/models.py).                                *)
(*                                                                         *)
(* Strings are sequences of one-character strings, so that parsing,        *)
(* splitting and formatting are computed and not assumed.  Calendar dates  *)
(* are triples <<year, month, day>>.  Every request handler is one action; *)
(* the response it returns, the query it built and the storage calls it    *)
(* made are kept in the state until the request's session is closed.       *)
(***************************************************************************)
EXTENDS Integers, Sequences, FiniteSets, TLC

VARIABLES
    patients,    \* rows of table 'patients', in storage order
    bpTable,     \* rows of table 'blood_pressure', in storage order
    hrTable,     \* rows of table 'heart_rate', in storage order
    nextId,      \* next value of the patients.id sequence
    pc,          \* "idle": no request in progress; "done": a handler has returned
    req,         \* the request the last handler was called with
    resp,        \* the response the last handler produced
    query,       \* the predicates of the last patient query that was built
    dbLog,       \* the storage calls and row mappings of the last handler, in order
    patients0    \* table 'patients' as it was when the last handler started

vars == <<patients, bpTable, hrTable, nextId, pc, req, resp, query, dbLog, patients0>>

-----------------------------------------------------------------------------
(* Bounds of the model *)

\* how many patients the model lets create_patient add to the seeded table
MaxCreated == 1
\* longest text, in characters, tried after an observation id's prefix
MaxSuffixLen == 2
\* create_operation_outcome is tried on every status in -1 .. MaxStatus
MaxStatus == 620
\* to_bundle is tried on every sequence of at most MaxBundleLen resources
MaxBundleLen == 3

-----------------------------------------------------------------------------
(* Characters and Python's string primitives *)

Digits == {"0", "1", "2", "3", "4", "5", "6", "7", "8", "9"}

DigitVal(c) ==
    CASE c = "0" -> 0 [] c = "1" -> 1 [] c = "2" -> 2 [] c = "3" -> 3
      [] c = "4" -> 4 [] c = "5" -> 5 [] c = "6" -> 6 [] c = "7" -> 7
      [] c = "8" -> 8 [] c = "9" -> 9

DigitChar(n) ==
    CASE n = 0 -> "0" [] n = 1 -> "1" [] n = 2 -> "2" [] n = 3 -> "3"
      [] n = 4 -> "4" [] n = 5 -> "5" [] n = 6 -> "6" [] n = 7 -> "7"
      [] n = 8 -> "8" [] n = 9 -> "9"

Whitespace == {" ", "\n"}

\* str.startswith
StartsWith(s, p) == Len(s) >= Len(p) /\ SubSeq(s, 1, Len(p)) = p

\* s[n:]
DropFirst(s, n) == IF Len(s) <= n THEN <<>> ELSE SubSeq(s, n + 1, Len(s))

RECURSIVE LStrip(_)
LStrip(s) == IF s # <<>> /\ Head(s) \in Whitespace THEN LStrip(Tail(s)) ELSE s

RECURSIVE RStrip(_)
RStrip(s) ==
    IF s # <<>> /\ s[Len(s)] \in Whitespace THEN RStrip(SubSeq(s, 1, Len(s) - 1)) ELSE s

\* position of the first occurrence of character c in s, 0 when there is none
RECURSIVE IndexOf(_, _, _)
IndexOf(s, c, i) ==
    IF i > Len(s) THEN 0 ELSE IF s[i] = c THEN i ELSE IndexOf(s, c, i + 1)

\* str.split(c): the pieces of s between the occurrences of c
RECURSIVE Split(_, _)
Split(s, c) ==
    LET i == IndexOf(s, c, 1)
    IN  IF i = 0 THEN <<s>>
        ELSE <<SubSeq(s, 1, i - 1)>> \o Split(DropFirst(s, i), c)

\* value of a run of digits and underscores, read left to right
RECURSIVE DigitsValue(_, _)
DigitsValue(s, acc) ==
    IF s = <<>> THEN acc
    ELSE IF Head(s) = "_" THEN DigitsValue(Tail(s), acc)
    ELSE DigitsValue(Tail(s), 10 * acc + DigitVal(Head(s)))

\* Python's int(text): surrounding whitespace is stripped, one sign is allowed,
\* then digits, with single underscores allowed between digits.
\* ok = FALSE stands for ValueError.
PyInt(s) ==
    LET t    == RStrip(LStrip(s))
        neg  == t # <<>> /\ Head(t) = "-"
        body == IF t # <<>> /\ Head(t) \in {"+", "-"} THEN Tail(t) ELSE t
        wellFormed ==
            /\ body # <<>>
            /\ \A i \in 1..Len(body) : body[i] \in Digits \cup {"_"}
            /\ body[1] \in Digits
            /\ body[Len(body)] \in Digits
            /\ \A i \in 1..(Len(body) - 1) : ~(body[i] = "_" /\ body[i + 1] = "_")
    IN  IF wellFormed
        THEN [ok |-> TRUE,
              val |-> IF neg THEN 0 - DigitsValue(body, 0) ELSE DigitsValue(body, 0)]
        ELSE [ok |-> FALSE, val |-> 0]

\* str(n) of an integer
RECURSIVE NatStr(_)
NatStr(n) == IF n < 10 THEN <<DigitChar(n)>> ELSE NatStr(n \div 10) \o <<DigitChar(n % 10)>>

IntStr(n) == IF n < 0 THEN <<"-">> \o NatStr(0 - n) ELSE NatStr(n)

\* an integer in at least w digits, zero padded
RECURSIVE Pad(_, _)
Pad(s, w) == IF Len(s) >= w THEN s ELSE Pad(<<"0">> \o s, w)

\* an optional parameter: absent (None) or a text
None == [some |-> FALSE, v |-> <<>>]
Some(s) == [some |-> TRUE, v |-> s]
\* Python's truth value of an optional text: None and "" are false
Truthy(o) == o.some /\ o.v # <<>>

-----------------------------------------------------------------------------
(* datetime.date *)

IsLeap(y) == (y % 4 = 0) /\ ((y % 100 # 0) \/ (y % 400 = 0))

DaysInMonth(y, m) ==
    IF m = 2 THEN (IF IsLeap(y) THEN 29 ELSE 28)
    ELSE IF m \in {4, 6, 9, 11} THEN 30 ELSE 31

\* date(y, m, d) can be constructed (otherwise ValueError)
IsCalendarDate(y, m, d) ==
    /\ y >= 1 /\ y <= 9999
    /\ m >= 1 /\ m <= 12
    /\ d >= 1 /\ d <= DaysInMonth(y, m)

\* date - timedelta(days=1)
MinusOneDay(dt) ==
    IF dt[3] > 1 THEN <<dt[1], dt[2], dt[3] - 1>>
    ELSE IF dt[2] > 1 THEN <<dt[1], dt[2] - 1, DaysInMonth(dt[1], dt[2] - 1)>>
    ELSE <<dt[1] - 1, 12, 31>>

\* a <= b on dates
DateLE(a, b) ==
    \/ a[1] < b[1]
    \/ a[1] = b[1] /\ a[2] < b[2]
    \/ a[1] = b[1] /\ a[2] = b[2] /\ a[3] <= b[3]

\* date.isoformat(): YYYY-MM-DD
IsoFormat(dt) ==
    Pad(NatStr(dt[1]), 4) \o <<"-">> \o Pad(NatStr(dt[2]), 2) \o <<"-">> \o Pad(NatStr(dt[3]), 2)

AllDigits(s) == \A i \in 1..Len(s) : s[i] \in Digits

\* date.fromisoformat(text) for the texts that pass validate_fhir_date:
\* exactly YYYY-MM-DD naming a real calendar day; ok = FALSE stands for ValueError
FromIsoFormat(s) ==
    LET shape == /\ Len(s) = 10
                 /\ AllDigits(SubSeq(s, 1, 4)) /\ s[5] = "-"
                 /\ AllDigits(SubSeq(s, 6, 7)) /\ s[8] = "-"
                 /\ AllDigits(SubSeq(s, 9, 10))
        y == DigitsValue(SubSeq(s, 1, 4), 0)
        m == DigitsValue(SubSeq(s, 6, 7), 0)
        d == DigitsValue(SubSeq(s, 9, 10), 0)
    IN  IF shape /\ IsCalendarDate(y, m, d)
        THEN [ok |-> TRUE, date |-> <<y, m, d>>]
        ELSE [ok |-> FALSE, date |-> <<0, 0, 0>>]

-----------------------------------------------------------------------------
(* app/utils.py: the error outcome and the responses *)

FhirJson == "application/fhir+json"
\* FHIRJSONResponse derives from JSONResponse, whose media type is used when the
\* caller passes none
DefaultJson == "application/json"

\* a variant that gives every 4xx status the code "invalid"
create_operation_outcome_code_all_4xx_invalid(status_code, detail, diagnostic) ==
    LET severity == IF status_code >= 500 THEN "fatal"
                    ELSE IF status_code >= 400 THEN "error" ELSE "warning"
        code == IF status_code >= 500 THEN "exception"
                ELSE IF status_code >= 400 THEN "invalid"
                ELSE "informational"
    IN  <<[issue |-> <<[severity |-> severity, code |-> code,
                        diagnostics |-> IF diagnostic # "" THEN diagnostic ELSE detail,
                        details |-> [text |-> detail]]>>],
          status_code>>

\* create_operation_outcome(status_code, detail, diagnostic): <<outcome, status>>;
\* diagnostic "" stands for None
create_operation_outcome(status_code, detail, diagnostic) ==
    LET severity == IF status_code >= 500 THEN "fatal"
                    ELSE IF status_code >= 400 THEN "error" ELSE "warning"
        code == IF status_code >= 500 THEN "exception"
                ELSE IF status_code >= 400
                     THEN (IF status_code = 404 THEN "not-found"
                           ELSE IF status_code = 400 THEN "invalid"
                           ELSE IF status_code = 403 THEN "forbidden"
                           ELSE IF status_code = 401 THEN "security"
                           ELSE "processing")
                ELSE "informational"
    IN  <<[issue |-> <<[severity |-> severity, code |-> code,
                        diagnostics |-> IF diagnostic # "" THEN diagnostic ELSE detail,
                        details |-> [text |-> detail]]>>],
          status_code>>

\* a response: kind is "OperationOutcome", "Patient", "Observation", "Bundle", or
\* "unhandled" when the handler raised and the framework answered for it
Response(kind, status, media, content, headers) ==
    [kind |-> kind, status |-> status, media |-> media, content |-> content,
     headers |-> headers]

NoHeaders == <<>>

fhir_error_handler(status_code, detail, diagnostic) ==
    LET r == create_operation_outcome(status_code, detail, diagnostic)
    IN  Response("OperationOutcome", r[2], FhirJson, r[1], NoHeaders)

\* An exception that leaves a handler: get_db logs it, rolls the session back and
\* raises it again; the framework answers 500 with a plain-text body.
UnhandledException ==
    Response("unhandled", 500, "text/plain", [issue |-> <<>>], NoHeaders)

NoResponse == Response("none", 0, "", [issue |-> <<>>], NoHeaders)

-----------------------------------------------------------------------------
(* app/resources/patient.py: dates, mapping, bundle *)

YearOk(y) ==
    \/ y[1] \in Digits /\ y[2] \in Digits /\ y[3] \in Digits /\ y[4] \in Digits \ {"0"}
    \/ y[1] \in Digits /\ y[2] \in Digits /\ y[3] \in Digits \ {"0"} /\ y[4] = "0"
    \/ y[1] \in Digits /\ y[2] \in Digits \ {"0"} /\ y[3] = "0" /\ y[4] = "0"
    \/ y[1] \in Digits \ {"0"} /\ y[2] = "0" /\ y[3] = "0" /\ y[4] = "0"

MonthOk(a, b) ==
    \/ a = "0" /\ b \in Digits \ {"0"}
    \/ a = "1" /\ b \in {"0", "1", "2"}

DayOk(a, b) ==
    \/ a = "0" /\ b \in Digits \ {"0"}
    \/ a \in {"1", "2"} /\ b \in Digits
    \/ a = "3" /\ b \in {"0", "1"}

\* validate_fhir_date(date_str): re.match of
\*   ^(YEAR)(-(0[1-9]|1[0-2])(-(0[1-9]|[1-2][0-9]|3[0-1]))?)?$
\* where $ also matches just before one trailing newline
validate_fhir_date(date_str) ==
    LET s == IF date_str # <<>> /\ date_str[Len(date_str)] = "\n"
             THEN SubSeq(date_str, 1, Len(date_str) - 1) ELSE date_str
    IN  /\ Len(s) \in {4, 7, 10}
        /\ YearOk(SubSeq(s, 1, 4))
        /\ Len(s) >= 7 => s[5] = "-" /\ MonthOk(s[6], s[7])
        /\ Len(s) = 10 => s[8] = "-" /\ DayOk(s[9], s[10])

\* a stored row of table 'patients' (models.py: every column NOT NULL)
PatientRow(id, first, last, dob) ==
    [id |-> id, first_name |-> first, last_name |-> last, date_of_birth |-> dob]

\* a column holding no date (NULL)
NoDate == <<0, 0, 0>>

\* row_to_patient(db_patient): the Patient model; birthDate stays None unless the
\* row has a date of birth
row_to_patient(db_patient) ==
    [resourceType |-> "Patient",
     id |-> IntStr(db_patient.id),
     name |-> <<[family |-> db_patient.last_name,
                 given |-> <<db_patient.first_name>>,
                 text |-> db_patient.first_name \o <<" ">> \o db_patient.last_name]>>,
     birthDate |-> IF db_patient.date_of_birth # NoDate
                   THEN Some(IsoFormat(db_patient.date_of_birth)) ELSE None]

\* r.model_dump(exclude_none=True): the dict of the fields of model r that are
\* not None.  Of the fields the models here carry, birthDate is the one that can
\* be None.
model_dump(r) ==
    LET present == {f \in DOMAIN r : f = "birthDate" => r[f].some}
    IN  [f \in present |-> IF f = "birthDate" THEN r[f].v ELSE r[f]]

\* the type_ argument of to_bundle: left out, or given
TypeOmitted == [some |-> FALSE, v |-> ""]
TypeGiven(t) == [some |-> TRUE, v |-> t]

\* a variant that lists the entries in reverse order
to_bundle_reversed(resources, type_) ==
    [resourceType |-> "Bundle",
     type |-> IF type_.some THEN type_.v ELSE "searchset",
     total |-> Len(resources),
     entry |-> [i \in 1..Len(resources) |->
                  [resource |-> model_dump(resources[Len(resources) + 1 - i])]]]

\* to_bundle(resources, type_="searchset") of patient.py
to_bundle(resources, type_) ==
    [resourceType |-> "Bundle",
     type |-> IF type_.some THEN type_.v ELSE "searchset",
     total |-> Len(resources),
     entry |-> [i \in 1..Len(resources) |-> [resource |-> model_dump(resources[i])]]]

\* [row_to_patient(p) for p in db_patients]
PatientResources(rows) == [i \in 1..Len(rows) |-> row_to_patient(rows[i])]

Lower(c) ==
    CASE c = "D" -> "d" [] c = "O" -> "o" [] c = "E" -> "e" [] c = "J" -> "j"
      [] c = "H" -> "h" [] c = "N" -> "n" [] c = "A" -> "a" [] c = "U" -> "u"
      [] OTHER -> c

\* SQL LIKE: % matches any run of characters, _ matches any one character
RECURSIVE LikeMatch(_, _)
LikeMatch(p, s) ==
    IF p = <<>> THEN s = <<>>
    ELSE IF Head(p) = "%"
         THEN LikeMatch(Tail(p), s) \/ (s # <<>> /\ LikeMatch(p, Tail(s)))
    ELSE IF s = <<>> THEN FALSE
    ELSE /\ (Head(p) = "_" \/ Lower(Head(p)) = Lower(Head(s)))
         /\ LikeMatch(Tail(p), Tail(s))

\* column.ilike(f"%{fragment}%")
ILikeContains(column, fragment) == LikeMatch(<<"%">> \o fragment \o <<"%">>, column)

-----------------------------------------------------------------------------
(* app/resources/patient.py: the handlers *)

NoDob == [kind |-> "none", lo |-> NoDate, hi |-> NoDate]
NoQuery == [built |-> FALSE, family |-> None, given |-> None, dob |-> NoDob]

\* the row satisfies every predicate of the query
RowMatches(q, row) ==
    /\ q.family.some => ILikeContains(row.last_name, q.family.v)
    /\ q.given.some => ILikeContains(row.first_name, q.given.v)
    /\ q.dob.kind = "range" =>
          DateLE(q.dob.lo, row.date_of_birth) /\ DateLE(row.date_of_birth, q.dob.hi)
    /\ q.dob.kind = "eq" => row.date_of_birth = q.dob.lo

\* a variant whose December range ends on day 30
birthdate_predicate_december_30(birthdate) ==
    LET parts == Split(birthdate, "-")
        year  == PyInt(parts[1]).val
        month == PyInt(parts[2]).val
        full  == FromIsoFormat(birthdate)
    IN  IF Len(parts) = 1
        THEN [ok |-> TRUE, dob |-> [kind |-> "range", lo |-> <<year, 1, 1>>,
                                    hi |-> <<year, 12, 31>>]]
        ELSE IF Len(parts) = 2
        THEN [ok |-> TRUE,
              dob |-> [kind |-> "range", lo |-> <<year, month, 1>>,
                       hi |-> IF month = 12 THEN <<year, month, 30>>
                              ELSE MinusOneDay(<<year, month + 1, 1>>)]]
        ELSE IF full.ok
        THEN [ok |-> TRUE, dob |-> [kind |-> "eq", lo |-> full.date, hi |-> full.date]]
        ELSE [ok |-> FALSE, dob |-> NoDob]

\* search_patients, the birthdate branch after the format check: the predicate on
\* date_of_birth for a text that passed validate_fhir_date; ok = FALSE stands for
\* the ValueError of date.fromisoformat
birthdate_predicate(birthdate) ==
    LET parts == Split(birthdate, "-")
        year  == PyInt(parts[1]).val
        month == PyInt(parts[2]).val
        full  == FromIsoFormat(birthdate)
    IN  IF Len(parts) = 1
        THEN [ok |-> TRUE, dob |-> [kind |-> "range", lo |-> <<year, 1, 1>>,
                                    hi |-> <<year, 12, 31>>]]
        ELSE IF Len(parts) = 2
        THEN [ok |-> TRUE,
              dob |-> [kind |-> "range", lo |-> <<year, month, 1>>,
                       hi |-> IF month = 12 THEN <<year, month, 31>>
                              ELSE MinusOneDay(<<year, month + 1, 1>>)]]
        ELSE IF full.ok
        THEN [ok |-> TRUE, dob |-> [kind |-> "eq", lo |-> full.date, hi |-> full.date]]
        ELSE [ok |-> FALSE, dob |-> NoDob]

\* read_patient(patient_id) on table rows; execOk = FALSE: db.execute raises
read_patient(patient_id, rows, execOk) ==
    LET found == SelectSeq(rows, LAMBDA r : r.id = patient_id)
    IN  IF ~execOk
        THEN [resp |-> UnhandledException, log |-> <<"select patients: error", "rollback">>]
        ELSE IF found = <<>>
        THEN [resp |-> fhir_error_handler(404, "Patient not found", ""),
              log |-> <<"select patients">>]
        ELSE [resp |-> Response("Patient", 200, DefaultJson,
                                model_dump(row_to_patient(found[1])), NoHeaders),
              log |-> <<"select patients">>]

\* search_patients(family, given, birthdate) on table rows; execOk = FALSE:
\* db.execute raises
search_patients(family, given, birthdate, rows, execOk) ==
    LET q0 == [built |-> TRUE,
               family |-> IF Truthy(family) THEN family ELSE None,
               given |-> IF Truthy(given) THEN given ELSE None,
               dob |-> NoDob]
        bd == birthdate_predicate(birthdate.v)
        q  == IF Truthy(birthdate) THEN [q0 EXCEPT !.dob = bd.dob] ELSE q0
        found == SelectSeq(rows, LAMBDA r : RowMatches(q, r))
    IN  IF Truthy(birthdate) /\ ~validate_fhir_date(birthdate.v)
        THEN [resp |-> fhir_error_handler(400, "Invalid birthdate format",
                                          "Birthdate must be in YYYY, YYYY-MM, or YYYY-MM-DD format"),
              query |-> NoQuery, log |-> <<>>]
        ELSE IF Truthy(birthdate) /\ ~bd.ok
        THEN [resp |-> fhir_error_handler(400, "Invalid birthdate", "Invalid calendar date"),
              query |-> NoQuery, log |-> <<>>]
        ELSE IF ~execOk
        THEN [resp |-> UnhandledException, query |-> q,
              log |-> <<"select patients: error", "rollback">>]
        ELSE [resp |-> Response("Bundle", 200, DefaultJson,
                                to_bundle(PatientResources(found), TypeOmitted),
                                NoHeaders),
              query |-> q, log |-> <<"select patients">>]

\* the birthDate of an inbound Patient resource, as the resource library hands it
\* over: absent, a datetime.date, a FHIR date type with as_json(), a str, or
\* a value of another type
NoBirthDate == [tag |-> "none", date |-> NoDate, text |-> <<>>]
BirthDateDate(d) == [tag |-> "date", date |-> d, text |-> <<>>]
BirthDateFhir(s) == [tag |-> "fhir", date |-> NoDate, text |-> s]
BirthDateStr(s) == [tag |-> "str", date |-> NoDate, text |-> s]
BirthDateOther == [tag |-> "other", date |-> NoDate, text |-> <<>>]

\* `if resource.birthDate:`
BirthDateTruthy(b) ==
    \/ b.tag \in {"date", "fhir", "other"}
    \/ b.tag = "str" /\ b.text # <<>>

\* a variant that completes a partial birth date to the first day of its range and
\* stores it
create_patient_partial_as_first_day(resource, rows, nid, commitOk, refreshOk) ==
    LET b    == resource.birthDate
        supplied == IF b.tag = "date" THEN IsoFormat(b.date) ELSE b.text
        text == IF Len(Split(supplied, "-")) = 1 THEN supplied \o <<"-", "0", "1", "-", "0", "1">>
                ELSE IF Len(Split(supplied, "-")) = 2 THEN supplied \o <<"-", "0", "1">>
                ELSE supplied
        parsed == FromIsoFormat(text)
        dob  == IF BirthDateTruthy(b) THEN parsed.date ELSE NoDate
        row  == PatientRow(nid, resource.name[1].given[1], resource.name[1].family.v, dob)
        committed == commitOk /\ dob # NoDate
        failed(log, newRows, newNid) ==
            [resp |-> fhir_error_handler(500, "Database transaction failed", "str(e)"),
             log |-> log, rows |-> newRows, nid |-> newNid]
        rejected(detail, diagnostic) ==
            [resp |-> fhir_error_handler(400, detail, diagnostic),
             log |-> <<>>, rows |-> rows, nid |-> nid]
    IN  IF \/ resource.name = <<>>
           \/ ~Truthy(resource.name[1].family)
           \/ resource.name[1].given = <<>>
        THEN rejected("Invalid Patient resource",
                      "Patient resource must include at least one name with family and given name")
        ELSE IF BirthDateTruthy(b) /\ b.tag = "other"
        THEN [resp |-> fhir_error_handler(500, "Internal Server Error",
                                          "Unexpected type for birthDate"),
              log |-> <<>>, rows |-> rows, nid |-> nid]
        ELSE IF BirthDateTruthy(b) /\ ~validate_fhir_date(supplied)
        THEN rejected("Invalid birthDate format", "Must be YYYY, YYYY-MM, or YYYY-MM-DD")
        ELSE IF BirthDateTruthy(b) /\ Len(Split(text, "-")) # 3
        THEN rejected("Partial dates not supported",
                      "Database requires a full birth date (YYYY-MM-DD)")
        ELSE IF BirthDateTruthy(b) /\ ~parsed.ok
        THEN rejected("Invalid birth date", "not a valid calendar date")
        ELSE IF ~committed
        THEN failed(<<"add", "commit: error", "rollback">>, rows, nid)
        ELSE IF ~refreshOk
        THEN failed(<<"add", "commit", "refresh: error", "rollback">>,
                    Append(rows, row), nid + 1)
        ELSE [resp |-> Response("Patient", 201, FhirJson, model_dump(row_to_patient(row)),
                                [Location |-> <<"/", "P", "a", "t", "i", "e", "n", "t", "/">>
                                              \o IntStr(nid)]),
              log |-> <<"add", "commit", "refresh">>,
              rows |-> Append(rows, row), nid |-> nid + 1]

\* create_patient(resource) on table rows with the id sequence at nid.
\* commitOk = FALSE: the storage fails the commit; refreshOk = FALSE: the storage
\* fails the refresh that follows a successful commit.  The commit also fails when
\* date_of_birth is NULL (models.py: nullable=False).
create_patient(resource, rows, nid, commitOk, refreshOk) ==
    LET b    == resource.birthDate
        text == IF b.tag = "date" THEN IsoFormat(b.date) ELSE b.text
        parsed == FromIsoFormat(text)
        dob  == IF BirthDateTruthy(b) THEN parsed.date ELSE NoDate
        row  == PatientRow(nid, resource.name[1].given[1], resource.name[1].family.v, dob)
        committed == commitOk /\ dob # NoDate
        failed(log, newRows, newNid) ==
            [resp |-> fhir_error_handler(500, "Database transaction failed", "str(e)"),
             log |-> log, rows |-> newRows, nid |-> newNid]
        rejected(detail, diagnostic) ==
            [resp |-> fhir_error_handler(400, detail, diagnostic),
             log |-> <<>>, rows |-> rows, nid |-> nid]
    IN  IF \/ resource.name = <<>>
           \/ ~Truthy(resource.name[1].family)
           \/ resource.name[1].given = <<>>
        THEN rejected("Invalid Patient resource",
                      "Patient resource must include at least one name with family and given name")
        ELSE IF BirthDateTruthy(b) /\ b.tag = "other"
        THEN [resp |-> fhir_error_handler(500, "Internal Server Error",
                                          "Unexpected type for birthDate"),
              log |-> <<>>, rows |-> rows, nid |-> nid]
        ELSE IF BirthDateTruthy(b) /\ ~validate_fhir_date(text)
        THEN rejected("Invalid birthDate format", "Must be YYYY, YYYY-MM, or YYYY-MM-DD")
        ELSE IF BirthDateTruthy(b) /\ Len(Split(text, "-")) # 3
        THEN rejected("Partial dates not supported",
                      "Database requires a full birth date (YYYY-MM-DD)")
        ELSE IF BirthDateTruthy(b) /\ ~parsed.ok
        THEN rejected("Invalid birth date", "not a valid calendar date")
        ELSE IF ~committed
        THEN failed(<<"add", "commit: error", "rollback">>, rows, nid)
        ELSE IF ~refreshOk
        THEN failed(<<"add", "commit", "refresh: error", "rollback">>,
                    Append(rows, row), nid + 1)
        ELSE [resp |-> Response("Patient", 201, FhirJson, model_dump(row_to_patient(row)),
                                [Location |-> <<"/", "P", "a", "t", "i", "e", "n", "t", "/">>
                                              \o IntStr(nid)]),
              log |-> <<"add", "commit", "refresh">>,
              rows |-> Append(rows, row), nid |-> nid + 1]

-----------------------------------------------------------------------------
(* app/resources/capability_statement.py *)

\* create_capability_statement() on the day `today`: the statement's status,
\* date, kind, version, formats, and per resource type its interactions and
\* search parameters
create_capability_statement(today) ==
    [resourceType |-> "CapabilityStatement",
     status |-> "active",
     date |-> IsoFormat(today),
     kind |-> "instance",
     fhirVersion |-> "4.0.1",
     format |-> <<"json">>,
     rest |-> <<[mode |-> "server",
                 resource |->
                   <<[type |-> "Patient",
                      interaction |-> <<"read", "search-type", "create">>,
                      searchParam |-> <<"family", "given", "birthdate">>],
                     [type |-> "Observation",
                      interaction |-> <<"read", "search-type">>,
                      searchParam |-> <<"patient", "code", "date">>]>>]>>]

\* capability_statement()
capability_statement(today) ==
    Response("CapabilityStatement", 200, FhirJson,
             model_dump(create_capability_statement(today)), NoHeaders)

-----------------------------------------------------------------------------
(* The inputs tried *)

John == <<"J", "o", "h", "n">>
Jane == <<"J", "a", "n", "e">>
Doe  == <<"D", "o", "e">>
Dunn == <<"D", "u", "n", "n">>

\* the patients the table holds before the first request
SeedPatients ==
    <<PatientRow(1, John, Doe, <<2024, 2, 29>>), PatientRow(2, Jane, Dunn, <<2023, 12, 31>>)>>

YearTexts ==
    {<<"1", "9", "0", "0">>, <<"2", "0", "0", "0">>, <<"2", "0", "2", "3">>,
     <<"2", "0", "2", "4">>}
MonthTexts == {Pad(NatStr(m), 2) : m \in 0..13}
DayTexts == {Pad(NatStr(d), 2) : d \in {0, 1, 28, 29, 30, 31, 32}}
YearMonthTexts == {y \o <<"-">> \o m : y \in YearTexts, m \in MonthTexts}
FullTexts == {ym \o <<"-">> \o d : ym \in YearMonthTexts, d \in DayTexts}
OddTexts ==
    {<<>>, <<"a", "b", "c", "d">>, <<"0", "0", "0", "0">>, <<"2", "0", "2">>,
     <<"2", "0", "2", "3", "\n">>, <<"2", "0", "2", "3", "-", "0", "2", "\n">>,
     <<"2", "0", "2", "3", "-", "0", "2", "-", "2", "8", "\n">>,
     <<"2", "0", "2", "3", "-", "2">>, <<"2", "0", "2", "3", "-", "0", "2", "-", "3">>,
     <<"2", "0", "2", "3", "/", "0", "2">>}

\* the date texts tried as a search birthdate
BirthdateTexts == YearTexts \cup YearMonthTexts \cup FullTexts \cup OddTexts

\* the full dates create_patient is given that name a real day; every other text of
\* BirthdateTexts is tried as well
CreatableTexts ==
    {<<"2", "0", "2", "3", "-", "0", "2", "-", "2", "8">>,
     <<"2", "0", "2", "4", "-", "0", "2", "-", "2", "9">>}
CreateTexts == {s \in BirthdateTexts : FromIsoFormat(s).ok => s \in CreatableTexts}

CreateBirthDates ==
    {NoBirthDate, BirthDateOther, BirthDateDate(<<2023, 2, 28>>),
     BirthDateFhir(<<"2", "0", "2", "3">>),
     BirthDateFhir(<<"2", "0", "2", "4", "-", "0", "2", "-", "2", "9">>)}
    \cup {BirthDateStr(s) : s \in CreateTexts}

CreateNames ==
    {<<>>,
     <<[family |-> None, given |-> <<John>>]>>,
     <<[family |-> Some(<<>>), given |-> <<John>>]>>,
     <<[family |-> Some(Doe), given |-> <<>>]>>,
     <<[family |-> Some(Doe), given |-> <<John>>]>>}

FamilyFragments == {None, Some(<<"d", "o">>), Some(<<"_">>)}
GivenFragments == {None, Some(<<"j", "a">>)}
SearchBirthdates == {None} \cup {Some(s) : s \in BirthdateTexts}

PatientIds == 0..(Len(SeedPatients) + MaxCreated + 1)

\* the days on which the capability statement is asked for
Todays == {<<2024, 2, 29>>, <<2026, 11, 3>>}

NoRequest == [op |-> "none"]

-----------------------------------------------------------------------------
(* The patient endpoints as a state machine *)

Init ==
    /\ patients = SeedPatients
    /\ bpTable = <<>>
    /\ hrTable = <<>>
    /\ nextId = Len(SeedPatients) + 1
    /\ pc = "idle"
    /\ req = NoRequest
    /\ resp = NoResponse
    /\ query = NoQuery
    /\ dbLog = <<>>
    /\ patients0 = SeedPatients

\* GET /Patient/{patient_id}
ReadPatient ==
    /\ pc = "idle"
    /\ \E patient_id \in PatientIds, execOk \in BOOLEAN :
          LET r == read_patient(patient_id, patients, execOk)
          IN  /\ req' = [op |-> "read_patient", patient_id |-> patient_id]
              /\ resp' = r.resp
              /\ dbLog' = r.log
    /\ pc' = "done"
    /\ query' = NoQuery
    /\ patients0' = patients
    /\ UNCHANGED <<patients, bpTable, hrTable, nextId>>

\* GET /Patient
SearchPatients ==
    /\ pc = "idle"
    /\ \E family \in FamilyFragments, given \in GivenFragments,
          birthdate \in SearchBirthdates, execOk \in BOOLEAN :
          LET r == search_patients(family, given, birthdate, patients, execOk)
          IN  /\ req' = [op |-> "search_patients", family |-> family, given |-> given,
                         birthdate |-> birthdate]
              /\ resp' = r.resp
              /\ query' = r.query
              /\ dbLog' = r.log
    /\ pc' = "done"
    /\ patients0' = patients
    /\ UNCHANGED <<patients, bpTable, hrTable, nextId>>

\* POST /Patient
CreatePatient ==
    /\ pc = "idle"
    /\ Len(patients) < Len(SeedPatients) + MaxCreated
    /\ \E name \in CreateNames, birthDate \in CreateBirthDates,
          commitOk \in BOOLEAN, refreshOk \in BOOLEAN :
          LET resource == [name |-> name, birthDate |-> birthDate]
              r == create_patient(resource, patients, nextId, commitOk, refreshOk)
          IN  /\ req' = [op |-> "create_patient", resource |-> resource]
              /\ resp' = r.resp
              /\ dbLog' = r.log
              /\ patients' = r.rows
              /\ nextId' = r.nid
    /\ pc' = "done"
    /\ query' = NoQuery
    /\ patients0' = patients
    /\ UNCHANGED <<bpTable, hrTable>>

\* the handler capability_statement()
CapabilityStatement ==
    /\ pc = "idle"
    /\ \E today \in Todays :
          /\ req' = [op |-> "capability_statement", today |-> today]
          /\ resp' = capability_statement(today)
    /\ pc' = "done"
    /\ query' = NoQuery
    /\ dbLog' = <<>>
    /\ patients0' = patients
    /\ UNCHANGED <<patients, bpTable, hrTable, nextId>>

\* get_db: the request's session is closed once the handler has returned
CloseSession ==
    /\ pc = "done"
    /\ pc' = "idle"
    /\ req' = NoRequest
    /\ resp' = NoResponse
    /\ query' = NoQuery
    /\ dbLog' = <<>>
    /\ patients0' = patients
    /\ UNCHANGED <<patients, bpTable, hrTable, nextId>>

Next ==
    ReadPatient \/ SearchPatients \/ CreatePatient \/ CapabilityStatement \/ CloseSession

Spec == Init /\ [][Next]_vars

-----------------------------------------------------------------------------
(* app/resources/observation.py: mapping *)

BpCode == <<"8", "5", "3", "5", "4", "-", "9">>
HrCode == <<"8", "8", "6", "7", "-", "4">>
PatientPrefix == <<"P", "a", "t", "i", "e", "n", "t", "/">>
BpPrefix == <<"b", "p", "-">>
HrPrefix == <<"h", "r", "-">>

BpRow(id, patient_id, systolic, diastolic, date) ==
    [id |-> id, patient_id |-> patient_id, systolic |-> systolic,
     diastolic |-> diastolic, date |-> date]

HrRow(id, patient_id, rate, date) ==
    [id |-> id, patient_id |-> patient_id, rate |-> rate, date |-> date]

\* bp_to_observation(bp)
bp_to_observation(bp) ==
    [resourceType |-> "Observation",
     id |-> BpPrefix \o IntStr(bp.id),
     status |-> "final",
     code |-> BpCode,
     subject |-> PatientPrefix \o IntStr(bp.patient_id),
     effectiveDateTime |-> IsoFormat(bp.date),
     values |-> <<[code |-> "8480-6", value |-> bp.systolic, unit |-> "mmHg"],
                  [code |-> "8462-4", value |-> bp.diastolic, unit |-> "mmHg"]>>]

\* hr_to_observation(hr)
hr_to_observation(hr) ==
    [resourceType |-> "Observation",
     id |-> HrPrefix \o IntStr(hr.id),
     status |-> "final",
     code |-> HrCode,
     subject |-> PatientPrefix \o IntStr(hr.patient_id),
     effectiveDateTime |-> IsoFormat(hr.date),
     values |-> <<[code |-> "8867-4", value |-> hr.rate, unit |-> "beats/minute"]>>]

\* the observations appended for the rows a query returned
BpObservations(rows) == [i \in 1..Len(rows) |-> bp_to_observation(rows[i])]
HrObservations(rows) == [i \in 1..Len(rows) |-> hr_to_observation(rows[i])]

\* to_bundle(resources, type_="searchset") of observation.py
observation_to_bundle(resources, type_) ==
    [resourceType |-> "Bundle",
     type |-> IF type_.some THEN type_.v ELSE "searchset",
     total |-> Len(resources),
     entry |-> [i \in 1..Len(resources) |-> [resource |-> model_dump(resources[i])]]]

-----------------------------------------------------------------------------
(* app/resources/observation.py: read_observation *)

\* read_observation(observation_id) on the two tables; execOk = FALSE:
\* db.execute raises
read_observation(observation_id, bpRows, hrRows, execOk) ==
    LET isBp  == StartsWith(observation_id, BpPrefix)
        isHr  == StartsWith(observation_id, HrPrefix)
        n     == PyInt(DropFirst(observation_id, 3))
        selected == IF isBp THEN "select blood_pressure" ELSE "select heart_rate"
        selectFailed == IF isBp THEN "select blood_pressure: error"
                        ELSE "select heart_rate: error"
        found == SelectSeq(IF isBp THEN bpRows ELSE hrRows, LAMBDA r : r.id = n.val)
    IN  IF ~isBp /\ ~isHr
        THEN [resp |-> fhir_error_handler(400, "Invalid observation ID format",
                                          "Observation ID must start with 'bp-' or 'hr-'"),
              log |-> <<>>]
        ELSE IF ~n.ok
        THEN [resp |-> fhir_error_handler(400, "Invalid observation ID format",
                                          "Expected numeric ID after prefix"),
              log |-> <<>>]
        ELSE IF ~execOk
        THEN [resp |-> UnhandledException,
              log |-> <<selectFailed, "rollback">>]
        ELSE IF found = <<>>
        THEN [resp |-> fhir_error_handler(404,
                           IF isBp THEN "Blood pressure observation not found"
                           ELSE "Heart rate observation not found", "No observation with ID"),
              log |-> <<selected>>]
        ELSE [resp |-> Response("Observation", 200, FhirJson,
                                model_dump(IF isBp THEN bp_to_observation(found[1])
                                           ELSE hr_to_observation(found[1])),
                                NoHeaders),
              log |-> <<selected>>]

-----------------------------------------------------------------------------
(* app/resources/observation.py: search_observations *)

\* datetime.strptime(text, "%Y-%m-%d").date(): %Y is four digits, %m is
\* 1[0-2]|0[1-9]|[1-9], %d is 3[01]|[12][0-9]|0[1-9]|[1-9]| [1-9]; the whole text
\* must be consumed and the day must exist; ok = FALSE stands for ValueError
Strptime(text) ==
    LET parts == Split(text, "-")
        y == parts[1]
        m == parts[2]
        d == parts[3]
        mOk == \/ Len(m) = 2 /\ m[1] = "1" /\ m[2] \in {"0", "1", "2"}
               \/ Len(m) = 2 /\ m[1] = "0" /\ m[2] \in Digits \ {"0"}
               \/ Len(m) = 1 /\ m[1] \in Digits \ {"0"}
        dOk == \/ Len(d) = 2 /\ d[1] = "3" /\ d[2] \in {"0", "1"}
               \/ Len(d) = 2 /\ d[1] \in {"1", "2"} /\ d[2] \in Digits
               \/ Len(d) = 2 /\ d[1] \in {"0", " "} /\ d[2] \in Digits \ {"0"}
               \/ Len(d) = 1 /\ d[1] \in Digits \ {"0"}
        yv == DigitsValue(y, 0)
        mv == DigitsValue(m, 0)
        dv == DigitsValue(LStrip(d), 0)
    IN  IF /\ Len(parts) = 3
           /\ Len(y) = 4 /\ AllDigits(y)
           /\ mOk /\ dOk
           /\ IsCalendarDate(yv, mv, dv)
        THEN [ok |-> TRUE, date |-> <<yv, mv, dv>>]
        ELSE [ok |-> FALSE, date |-> NoDate]

NoInt == [some |-> FALSE, v |-> 0]
SomeInt(n) == [some |-> TRUE, v |-> n]

\* the query on one observation table: excluded (None), or the predicates on
\* patient_id and date
ObsQuery(excluded, patient_id, search_date) ==
    [excluded |-> excluded, patient_id |-> patient_id, date |-> search_date]

ObsRowMatches(q, row) ==
    /\ q.patient_id.some => row.patient_id = q.patient_id.v
    /\ q.date # NoDate => row.date = q.date

\* a variant that leaves the date predicate out
observation_query_without_date(tableCode, patient_id, search_date, code) ==
    ObsQuery(Truthy(code) /\ code.v # tableCode,
             IF patient_id.some /\ patient_id.v # 0 THEN patient_id ELSE NoInt,
             NoDate)

\* search_observations, lines 210-217 and 226-232: the query on the table whose
\* fixed code is tableCode
observation_query(tableCode, patient_id, search_date, code) ==
    ObsQuery(Truthy(code) /\ code.v # tableCode,
             IF patient_id.some /\ patient_id.v # 0 THEN patient_id ELSE NoInt,
             search_date)

\* a variant that puts the heart-rate observations first
all_observation_models_hr_first(bpFound, hrFound) ==
    HrObservations(hrFound) \o BpObservations(bpFound)

\* search_observations, all_observation_models once both loops have run: the
\* observations of the blood-pressure rows, then those of the heart-rate rows
all_observation_models(bpFound, hrFound) ==
    BpObservations(bpFound) \o HrObservations(hrFound)

\* search_observations(patient, code, date) on the two tables; bpExecOk, hrExecOk
\* = FALSE: the db.execute on that table raises.  The log holds, in order, the
\* query on each table and the mapping of each row it returned.
search_observations(patient, code, date, bpRows, hrRows, bpExecOk, hrExecOk) ==
    LET parsedDate == Strptime(date.v)
        search_date == IF Truthy(date) THEN parsedDate.date ELSE NoDate
        n == PyInt(Split(patient.v, "/")[2])
        patient_id == IF Truthy(patient) THEN SomeInt(n.val) ELSE NoInt
        bp_query == observation_query(BpCode, patient_id, search_date, code)
        hr_query == observation_query(HrCode, patient_id, search_date, code)
        q == [built |-> TRUE, bp |-> bp_query, hr |-> hr_query]
        bpFound == IF bp_query.excluded THEN <<>>
                   ELSE SelectSeq(bpRows, LAMBDA r : ObsRowMatches(bp_query, r))
        hrFound == IF hr_query.excluded THEN <<>>
                   ELSE SelectSeq(hrRows, LAMBDA r : ObsRowMatches(hr_query, r))
        bpLog == IF bp_query.excluded THEN <<>>
                 ELSE <<"select blood_pressure">>
                      \o [i \in 1..Len(bpFound) |-> "bp_to_observation"]
        hrLog == IF hr_query.excluded THEN <<>>
                 ELSE <<"select heart_rate">>
                      \o [i \in 1..Len(hrFound) |-> "hr_to_observation"]
        rejected(detail, diagnostic) ==
            [resp |-> fhir_error_handler(400, detail, diagnostic),
             query |-> [built |-> FALSE], log |-> <<>>]
    IN  IF Truthy(date) /\ ~parsedDate.ok
        THEN rejected("Invalid date format", "Date must be in YYYY-MM-DD format")
        ELSE IF Truthy(patient) /\ ~StartsWith(patient.v, PatientPrefix)
        THEN rejected("Invalid patient reference format",
                      "Patient reference must be in the format 'Patient/{id}'")
        ELSE IF Truthy(patient) /\ ~n.ok
        THEN rejected("Invalid patient ID", "Expected numeric patient ID")
        ELSE IF ~bp_query.excluded /\ ~bpExecOk
        THEN [resp |-> UnhandledException, query |-> q,
              log |-> <<"select blood_pressure: error", "rollback">>]
        ELSE IF ~hr_query.excluded /\ ~hrExecOk
        THEN [resp |-> UnhandledException, query |-> q,
              log |-> bpLog \o <<"select heart_rate: error", "rollback">>]
        ELSE [resp |-> Response("Bundle", 200, FhirJson,
                                observation_to_bundle(all_observation_models(bpFound, hrFound),
                                                      TypeOmitted),
                                NoHeaders),
              query |-> q, log |-> bpLog \o hrLog]

-----------------------------------------------------------------------------
(* The observation endpoints as a state machine *)

SeedBp ==
    <<BpRow(1, 1, 120, 80, <<2023, 6, 15>>), BpRow(2, 2, 130, 85, <<2024, 2, 29>>)>>
SeedHr ==
    <<HrRow(1, 2, 72, <<2023, 6, 15>>), HrRow(2, 1, 64, <<2023, 6, 16>>)>>

\* the tables tried: the seed rows, any of them missing
SubTables(seed) ==
    {SelectSeq(seed, LAMBDA r : r.id \in keep) : keep \in SUBSET {seed[i].id : i \in 1..Len(seed)}}

\* every text of at most n characters of the alphabet
RECURSIVE TextsUpTo(_, _)
TextsUpTo(alphabet, n) ==
    IF n = 0 THEN {<<>>}
    ELSE LET shorter == TextsUpTo(alphabet, n - 1)
         IN  shorter \cup {Append(t, c) : t \in shorter, c \in alphabet}

IdChars == {"0", "1", "-", "+", " ", "x"}
IdPrefixes == {BpPrefix, HrPrefix, <<"x", "x", "-">>, <<"b", "p">>, <<"B", "P", "-">>, <<>>}
ObservationIds == {p \o t : p \in IdPrefixes, t \in TextsUpTo(IdChars, MaxSuffixLen)}

PatientRefs ==
    {None, Some(<<>>)}
    \cup {Some(PatientPrefix \o t) :
            t \in {<<"1">>, <<"2">>, <<"0">>, <<"3">>, <<>>, <<"x">>, <<"1", "/", "x">>,
                   <<"1", "x">>, <<" ", "1">>, <<"-", "1">>, <<"0", "2">>}}
    \cup {Some(t) : t \in {<<"1">>, <<"p", "a", "t", "i", "e", "n", "t", "/", "1">>,
                           <<"P", "a", "t", "i", "e", "n", "t">>}}

Codes == {None, Some(<<>>), Some(BpCode), Some(HrCode), Some(<<"1", "2", "3", "4", "-", "5">>)}

ObservationDates ==
    {None, Some(<<>>)}
    \cup {Some(t) : t \in {<<"2", "0", "2", "3">>,
                           <<"2", "0", "2", "3", "-", "0", "6">>,
                           <<"2", "0", "2", "4", "-", "0", "2">>,
                           <<"2", "0", "2", "3", "-", "0", "6", "-", "1", "5">>,
                           <<"2", "0", "2", "3", "-", "0", "6", "-", "1", "6">>,
                           <<"2", "0", "2", "3", "-", "6", "-", "1", "5">>,
                           <<"2", "0", "2", "4", "-", "0", "2", "-", "2", "9">>,
                           <<"2", "0", "2", "3", "-", "0", "2", "-", "3", "0">>,
                           <<"2", "0", "2", "3", "-", "0", "6", "-", "1", "5", "\n">>,
                           <<"a", "b", "c", "d">>}}

InitObservation ==
    /\ patients = SeedPatients
    /\ bpTable \in SubTables(SeedBp)
    /\ hrTable \in SubTables(SeedHr)
    /\ nextId = Len(SeedPatients) + 1
    /\ pc = "idle"
    /\ req = NoRequest
    /\ resp = NoResponse
    /\ query = NoQuery
    /\ dbLog = <<>>
    /\ patients0 = SeedPatients

\* GET /Observation/{observation_id}
ReadObservation ==
    /\ pc = "idle"
    /\ \E observation_id \in ObservationIds, execOk \in BOOLEAN :
          LET r == read_observation(observation_id, bpTable, hrTable, execOk)
          IN  /\ req' = [op |-> "read_observation", observation_id |-> observation_id]
              /\ resp' = r.resp
              /\ dbLog' = r.log
    /\ pc' = "done"
    /\ query' = NoQuery
    /\ patients0' = patients
    /\ UNCHANGED <<patients, bpTable, hrTable, nextId>>

\* GET /Observation
SearchObservations ==
    /\ pc = "idle"
    /\ \E patient \in PatientRefs, code \in Codes, date \in ObservationDates,
          bpExecOk \in BOOLEAN, hrExecOk \in BOOLEAN :
          LET r == search_observations(patient, code, date, bpTable, hrTable,
                                       bpExecOk, hrExecOk)
          IN  /\ req' = [op |-> "search_observations", patient |-> patient,
                         code |-> code, date |-> date]
              /\ resp' = r.resp
              /\ query' = r.query
              /\ dbLog' = r.log
    /\ pc' = "done"
    /\ patients0' = patients
    /\ UNCHANGED <<patients, bpTable, hrTable, nextId>>

NextObservation == ReadObservation \/ SearchObservations \/ CloseSession

SpecObservation == InitObservation /\ [][NextObservation]_vars

-----------------------------------------------------------------------------
(* create_operation_outcome on its own *)

Statuses == (0 - 1)..MaxStatus

InitOutcome ==
    /\ patients = SeedPatients
    /\ bpTable = <<>>
    /\ hrTable = <<>>
    /\ nextId = Len(SeedPatients) + 1
    /\ pc = "idle"
    /\ req \in {[op |-> "create_operation_outcome", status_code |-> s,
                 detail |-> "detail", diagnostic |-> d] :
                    s \in Statuses, d \in {"", "diagnostic"}}
    /\ resp = NoResponse
    /\ query = NoQuery
    /\ dbLog = <<>>
    /\ patients0 = SeedPatients

\* the call create_operation_outcome(status_code, detail, diagnostic)
CreateOperationOutcome ==
    /\ pc = "idle"
    /\ req.op = "create_operation_outcome"
    /\ LET r == create_operation_outcome(req.status_code, req.detail, req.diagnostic)
       IN  resp' = Response("(OperationOutcome, int)", r[2], "", r[1], NoHeaders)
    /\ pc' = "done"
    /\ UNCHANGED <<patients, bpTable, hrTable, nextId, req, query, dbLog, patients0>>

NextOutcome == CreateOperationOutcome

SpecOutcome == InitOutcome /\ [][NextOutcome]_vars

-----------------------------------------------------------------------------
(* app/main.py: the application and its routes *)

\* include_router(..., prefix="/fhir")
FhirPrefix == <<"/", "f", "h", "i", "r">>
\* @router.get("/Patient/{patient_id}") and @router.get("/Patient")
PatientPath == <<"/", "P", "a", "t", "i", "e", "n", "t">>
\* @router.get("/Observation/{observation_id}") and @router.get("/Observation")
ObservationPath == <<"/", "O", "b", "s", "e", "r", "v", "a", "t", "i", "o", "n">>

\* the answer of the framework itself: 404 when no route matches the path, 422
\* when a path parameter does not convert to the handler's parameter type
FrameworkResponse(status, detail) ==
    Response("framework", status, DefaultJson, [detail |-> detail], NoHeaders)

\* root()
root == Response("message", 200, DefaultJson, [message |-> "Welcome"], NoHeaders)

\* the route of a GET path: the handler whose route the path matches in full
\* and the text of its path parameter; a path parameter is one or more
\* characters other than '/'
route(path) ==
    LET patientItem == FhirPrefix \o PatientPath \o <<"/">>
        observationItem == FhirPrefix \o ObservationPath \o <<"/">>
        isParam(t) == t # <<>> /\ \A i \in 1..Len(t) : t[i] # "/"
    IN  IF path = <<"/">> THEN [handler |-> "root", param |-> <<>>]
        ELSE IF path = FhirPrefix \o PatientPath
        THEN [handler |-> "search_patients", param |-> <<>>]
        ELSE IF path = FhirPrefix \o ObservationPath
        THEN [handler |-> "search_observations", param |-> <<>>]
        ELSE IF StartsWith(path, patientItem) /\ isParam(DropFirst(path, Len(patientItem)))
        THEN [handler |-> "read_patient", param |-> DropFirst(path, Len(patientItem))]
        ELSE IF /\ StartsWith(path, observationItem)
                /\ isParam(DropFirst(path, Len(observationItem)))
        THEN [handler |-> "read_observation",
              param |-> DropFirst(path, Len(observationItem))]
        ELSE [handler |-> "none", param |-> <<>>]

\* GET path, without query parameters, on the application; execOk = FALSE:
\* the db.execute calls of the handler raise
app_get(path, rows, bpRows, hrRows, execOk) ==
    LET r  == route(path)
        id == PyInt(r.param)
        answered(response) == [resp |-> response, query |-> NoQuery, log |-> <<>>]
        handled(r0) == [resp |-> r0.resp, query |-> NoQuery, log |-> r0.log]
    IN  CASE r.handler = "root" -> answered(root)
          [] r.handler = "search_patients" -> search_patients(None, None, None, rows, execOk)
          [] r.handler = "search_observations" ->
                search_observations(None, None, None, bpRows, hrRows, execOk, execOk)
          [] r.handler = "read_patient" ->
                IF id.ok
                THEN handled(read_patient(id.val, rows, execOk))
                ELSE answered(FrameworkResponse(422, "Unprocessable Entity"))
          [] r.handler = "read_observation" ->
                handled(read_observation(r.param, bpRows, hrRows, execOk))
          [] OTHER -> answered(FrameworkResponse(404, "Not Found"))

\* the paths tried
Paths ==
    {<<"/">>, FhirPrefix, FhirPrefix \o PatientPath, FhirPrefix \o ObservationPath,
     PatientPath, ObservationPath,
     FhirPrefix \o <<"/", "m", "e", "t", "a", "d", "a", "t", "a">>,
     FhirPrefix \o PatientPath \o <<"/", "x">>,
     FhirPrefix \o PatientPath \o <<"/", "1", "/", "x">>,
     FhirPrefix \o ObservationPath \o <<"/", "b", "p", "-", "1">>,
     FhirPrefix \o ObservationPath \o <<"/", "h", "r", "-", "9">>,
     ObservationPath \o <<"/", "b", "p", "-", "1">>}
    \cup {PatientPath \o <<"/">> \o IntStr(n) : n \in PatientIds}
    \cup {FhirPrefix \o PatientPath \o <<"/">> \o IntStr(n) : n \in PatientIds}

InitApp ==
    /\ patients = SeedPatients
    /\ bpTable = SeedBp
    /\ hrTable = SeedHr
    /\ nextId = Len(SeedPatients) + 1
    /\ pc = "idle"
    /\ req = NoRequest
    /\ resp = NoResponse
    /\ query = NoQuery
    /\ dbLog = <<>>
    /\ patients0 = SeedPatients

\* GET path
Get ==
    /\ pc = "idle"
    /\ \E path \in Paths, execOk \in BOOLEAN :
          LET r == app_get(path, patients, bpTable, hrTable, execOk)
          IN  /\ req' = [op |-> "get", path |-> path]
              /\ resp' = r.resp
              /\ query' = r.query
              /\ dbLog' = r.log
    /\ pc' = "done"
    /\ patients0' = patients
    /\ UNCHANGED <<patients, bpTable, hrTable, nextId>>

NextApp == CreatePatient \/ Get \/ CloseSession

SpecApp == InitApp /\ [][NextApp]_vars

-----------------------------------------------------------------------------
(* to_bundle on its own *)

\* the resources tried: two patients, one of them without a birthDate, a
\* blood-pressure and a heart-rate observation
BundleResources ==
    {row_to_patient(SeedPatients[1]),
     [row_to_patient(SeedPatients[2]) EXCEPT !.birthDate = None],
     bp_to_observation(SeedBp[1]),
     hr_to_observation(SeedHr[1])}

BundleInputs == TextsUpTo(BundleResources, MaxBundleLen)

BundleTypes == {TypeOmitted, TypeGiven("searchset"), TypeGiven("collection"),
                TypeGiven("")}

InitBundle ==
    /\ patients = SeedPatients
    /\ bpTable = SeedBp
    /\ hrTable = SeedHr
    /\ nextId = Len(SeedPatients) + 1
    /\ pc = "idle"
    /\ req = NoRequest
    /\ resp = NoResponse
    /\ query = NoQuery
    /\ dbLog = <<>>
    /\ patients0 = SeedPatients

\* the call to_bundle(resources, type_) of patient.py
ToBundle ==
    /\ pc = "idle"
    /\ \E resources \in BundleInputs, type_ \in BundleTypes :
          /\ req' = [op |-> "to_bundle", module |-> "patient",
                     resources |-> resources, type_ |-> type_]
          /\ resp' = Response("Bundle", 0, "", to_bundle(resources, type_), NoHeaders)
    /\ pc' = "done"
    /\ UNCHANGED <<patients, bpTable, hrTable, nextId, query, dbLog, patients0>>

\* the call to_bundle(resources, type_) of observation.py
ObservationToBundle ==
    /\ pc = "idle"
    /\ \E resources \in BundleInputs, type_ \in BundleTypes :
          /\ req' = [op |-> "to_bundle", module |-> "observation",
                     resources |-> resources, type_ |-> type_]
          /\ resp' = Response("Bundle", 0, "", observation_to_bundle(resources, type_),
                              NoHeaders)
    /\ pc' = "done"
    /\ UNCHANGED <<patients, bpTable, hrTable, nextId, query, dbLog, patients0>>

NextBundle == ToBundle \/ ObservationToBundle

SpecBundle == InitBundle /\ [][NextBundle]_vars

-----------------------------------------------------------------------------
(* What the claims speak of *)

Handled(op) == pc = "done" /\ req.op = op

IssueOf(r) == r.content.issue[1]
DetailOf(r) == IssueOf(r).details.text

IsError(r, status, detail) ==
    /\ r.kind = "OperationOutcome"
    /\ r.status = status
    /\ DetailOf(r) = detail

StorageRaised == \E i \in 1..Len(dbLog) : dbLog[i] = "rollback"

Num(s) == DigitsValue(s, 0)

\* YYYY with a year of 1 or more
IsYearText(s) == Len(s) = 4 /\ AllDigits(s) /\ Num(s) >= 1

\* YYYY-MM with a month of 1 to 12
IsYearMonthText(s) ==
    /\ Len(s) = 7 /\ IsYearText(SubSeq(s, 1, 4)) /\ s[5] = "-"
    /\ AllDigits(SubSeq(s, 6, 7)) /\ Num(SubSeq(s, 6, 7)) \in 1..12

\* YYYY-MM-DD with a month of 1 to 12 and a day of 1 to 31
IsFullText(s) ==
    /\ Len(s) = 10 /\ IsYearMonthText(SubSeq(s, 1, 7)) /\ s[8] = "-"
    /\ AllDigits(SubSeq(s, 9, 10)) /\ Num(SubSeq(s, 9, 10)) \in 1..31

\* the number of days of month m of year y, by the calendar
CalendarDays(y, m) ==
    CASE m \in {1, 3, 5, 7, 8, 10, 12} -> 31
      [] m \in {4, 6, 9, 11} -> 30
      [] m = 2 -> IF y % 400 = 0 \/ (y % 4 = 0 /\ y % 100 # 0) THEN 29 ELSE 28

IsRealDayText(s) ==
    IsFullText(s) /\ Num(SubSeq(s, 9, 10)) <= CalendarDays(Num(SubSeq(s, 1, 4)), Num(SubSeq(s, 6, 7)))

\* the text of a birthDate supplied as text (a str or a FHIR date type)
SuppliedText(b) == b.tag \in {"str", "fhir"} /\ b.text # <<>>

NameAccepted(resource) ==
    /\ resource.name # <<>>
    /\ Truthy(resource.name[1].family)
    /\ resource.name[1].given # <<>>

-----------------------------------------------------------------------------
(* C1: every create_patient request ends either in 201 with the identity the   *)
(* store assigned to the inserted row, or in an error outcome with no row of   *)
(* the request visible in table patients; in particular a 500 'Database        *)
(* transaction failed' response leaves the table as it was.                    *)
C1_InsertedOrNothingVisible ==
    Handled("create_patient") =>
        \/ /\ resp.status = 201
           /\ Len(patients) = Len(patients0) + 1
           /\ resp.content.id = IntStr(patients[Len(patients)].id)
        \/ /\ resp.kind = "OperationOutcome"
           /\ resp.status >= 400
           /\ patients = patients0

-----------------------------------------------------------------------------
(* C2: create_patient answers a birth date in partial form (YYYY or YYYY-MM)   *)
(* with 400 'Partial dates not supported' and a full form that is no real      *)
(* calendar day with 400 'Invalid birth date'; in both cases nothing is added  *)
(* to the session and table patients is unchanged.  (A resource whose name is  *)
(* rejected gets its own 400 first.)                                           *)
C2_PartialAndUnrealDatesRejected ==
    Handled("create_patient") /\ SuppliedText(req.resource.birthDate) =>
        LET t == req.resource.birthDate.text
            named == NameAccepted(req.resource)
        IN  /\ IsYearText(t) \/ IsYearMonthText(t) =>
                 /\ resp.status = 400 /\ resp.kind = "OperationOutcome"
                 /\ named => IsError(resp, 400, "Partial dates not supported")
                 /\ dbLog = <<>> /\ patients = patients0
            /\ IsFullText(t) /\ ~IsRealDayText(t) =>
                 /\ resp.status = 400 /\ resp.kind = "OperationOutcome"
                 /\ named => IsError(resp, 400, "Invalid birth date")
                 /\ dbLog = <<>> /\ patients = patients0

C2_Witness ==
    /\ Handled("create_patient")
    /\ NameAccepted(req.resource)
    /\ req.resource.birthDate = BirthDateStr(<<"2", "0", "2", "3", "-", "0", "2">>)
    /\ IsError(resp, 400, "Partial dates not supported")
    /\ dbLog = <<>>

-----------------------------------------------------------------------------
(* C3: create_patient rejects with 400, before anything is added to the        *)
(* session, every resource without a name entry with family and given, and     *)
(* every resource without a birth date that resolves to a calendar date, a     *)
(* resource with no birthDate at all included.                                 *)
C3_RejectedBeforeStorage ==
    Handled("create_patient") /\ req.resource.birthDate.tag # "other" =>
        LET b == req.resource.birthDate
            resolves == \/ b.tag = "date"
                        \/ SuppliedText(b) /\ IsRealDayText(b.text)
        IN  ~NameAccepted(req.resource) \/ ~resolves =>
               resp.status = 400 /\ resp.kind = "OperationOutcome" /\ dbLog = <<>>

-----------------------------------------------------------------------------
(* C5: in every endpoint every failure ends in an OperationOutcome response    *)
(* made by fhir_error_handler, with status 400, 404 or 500; no failure leaves  *)
(* a handler as an unhandled exception.                                        *)
C5_EveryFailureIsAnOutcome ==
    pc = "done" /\ req.op \in {"read_patient", "search_patients", "create_patient",
                               "read_observation", "search_observations"} =>
        \/ resp.kind \in {"Patient", "Observation", "Bundle"} /\ resp.status \in {200, 201}
        \/ /\ resp.kind = "OperationOutcome"
           /\ resp.media = FhirJson
           /\ resp.status \in {400, 404, 500}

-----------------------------------------------------------------------------
(* C10: for every valid birthdate expression search_patients constrains        *)
(* date_of_birth to the inclusive range of its expansion: a year to            *)
(* [Jan 1, Dec 31], a year-month to [first, last day of the month by the       *)
(* calendar], a full date d to [d, d]; the bundle holds the rows in the range. *)
ExpansionLo(t) ==
    <<Num(SubSeq(t, 1, 4)),
      IF Len(t) >= 7 THEN Num(SubSeq(t, 6, 7)) ELSE 1,
      IF Len(t) = 10 THEN Num(SubSeq(t, 9, 10)) ELSE 1>>

ExpansionHi(t) ==
    <<Num(SubSeq(t, 1, 4)),
      IF Len(t) >= 7 THEN Num(SubSeq(t, 6, 7)) ELSE 12,
      IF Len(t) = 10 THEN Num(SubSeq(t, 9, 10))
      ELSE IF Len(t) = 7 THEN CalendarDays(Num(SubSeq(t, 1, 4)), Num(SubSeq(t, 6, 7)))
      ELSE 31>>

C10_BirthdateRange ==
    Handled("search_patients") /\ req.birthdate.some =>
        LET t == req.birthdate.v
            inRange(r) == /\ DateLE(ExpansionLo(t), r.date_of_birth)
                          /\ DateLE(r.date_of_birth, ExpansionHi(t))
        IN  IsYearText(t) \/ IsYearMonthText(t) \/ IsRealDayText(t) =>
               /\ query.built
               /\ query.dob.kind \in {"range", "eq"}
               /\ query.dob.lo = ExpansionLo(t)
               /\ query.dob.hi = ExpansionHi(t)
               /\ resp.kind \in {"Bundle", "unhandled"}
               /\ resp.kind = "Bundle" /\ ~Truthy(req.family) /\ ~Truthy(req.given) =>
                     resp.content.entry =
                        [i \in 1..Len(SelectSeq(patients, inRange)) |->
                            [resource |->
                                model_dump(row_to_patient(SelectSeq(patients, inRange)[i]))]]

C10_Witness ==
    /\ Handled("search_patients")
    /\ req.birthdate = Some(<<"2", "0", "2", "4", "-", "0", "2">>)
    /\ ~Truthy(req.family) /\ ~Truthy(req.given)
    /\ resp.kind = "Bundle"
    /\ resp.content.total = 1
    /\ resp.content.entry[1].resource.birthDate = <<"2", "0", "2", "4", "-", "0", "2", "-", "2", "9">>
    /\ query.dob.hi = <<2024, 2, 29>>

-----------------------------------------------------------------------------
(* C4: create_operation_outcome returns, for every integer status, exactly one *)
(* issue and the status unchanged: fatal/exception from 500 up; error from 400 *)
(* to 499 with code not-found for 404, invalid for 400, forbidden for 403,     *)
(* security for 401 and processing otherwise; warning/informational below 400. *)
C4_OutcomeMapping ==
    Handled("create_operation_outcome") =>
        LET st == req.status_code
            issue == resp.content.issue
        IN  /\ Len(issue) = 1
            /\ resp.status = st
            /\ issue[1].details.text = req.detail
            /\ st >= 500 => issue[1].severity = "fatal" /\ issue[1].code = "exception"
            /\ st >= 400 /\ st < 500 =>
                 /\ issue[1].severity = "error"
                 /\ issue[1].code = CASE st = 404 -> "not-found"
                                      [] st = 400 -> "invalid"
                                      [] st = 403 -> "forbidden"
                                      [] st = 401 -> "security"
                                      [] OTHER -> "processing"
            /\ st < 400 => issue[1].severity = "warning" /\ issue[1].code = "informational"

C4_Witness ==
    /\ Handled("create_operation_outcome")
    /\ req.status_code = 403
    /\ resp.status = 403
    /\ resp.content.issue[1].code = "forbidden"

-----------------------------------------------------------------------------
(* What the observation claims speak of *)

Entries(r) == r.content.entry

\* one bundle entry around each resource
Wrapped(resources) ==
    [i \in 1..Len(resources) |-> [resource |-> model_dump(resources[i])]]

Queried(table) ==
    \E i \in 1..Len(dbLog) : dbLog[i] \in {"select " \o table, "select " \o table \o ": error"}

\* 'Patient/' followed by digits only
IsPlainPatientRef(t) ==
    /\ StartsWith(t, PatientPrefix)
    /\ Len(t) > Len(PatientPrefix)
    /\ AllDigits(DropFirst(t, Len(PatientPrefix)))

\* 'Patient/' followed by a text that int() reads as an integer
IsPatientRef(t) ==
    StartsWith(t, PatientPrefix) /\ PyInt(DropFirst(t, Len(PatientPrefix))).ok

\* the entry satisfies the patient and date filters as they were supplied
SatisfiesSuppliedFilters(e) ==
    /\ Truthy(req.patient) /\ IsPlainPatientRef(req.patient.v) =>
          e.resource.subject =
             PatientPrefix \o IntStr(Num(DropFirst(req.patient.v, Len(PatientPrefix))))
    /\ Truthy(req.date) /\ IsRealDayText(req.date.v) =>
          e.resource.effectiveDateTime = req.date.v

-----------------------------------------------------------------------------
(* C6: in search_observations a supplied code that differs from a table's      *)
(* fixed code excludes that table: it is not queried and gives no entry, while *)
(* the other table is still filtered by the supplied patient and date; a code  *)
(* matching neither table gives an empty bundle with total 0.                  *)
C6_CodeExcludesTable ==
    Handled("search_observations") /\ Truthy(req.code) =>
        /\ req.code.v # BpCode => ~Queried("blood_pressure")
        /\ req.code.v # HrCode => ~Queried("heart_rate")
        /\ resp.kind = "Bundle" =>
             /\ \A i \in 1..Len(Entries(resp)) :
                   /\ Entries(resp)[i].resource.code = req.code.v
                   /\ SatisfiesSuppliedFilters(Entries(resp)[i])
             /\ req.code.v \notin {BpCode, HrCode} =>
                   resp.content.total = 0 /\ Entries(resp) = <<>>

-----------------------------------------------------------------------------
(* C7 as claimed: for a date in partial form (YYYY or YYYY-MM)                 *)
(* search_observations returns the observations whose date lies in the         *)
(* expanded range, and for a full date those of that day.                      *)
C7_PartialDateIsARange ==
    Handled("search_observations") /\ Truthy(req.date) /\ ~StorageRaised
      /\ ~Truthy(req.patient) /\ ~Truthy(req.code) =>
        LET t == req.date.v
            inRange(r) == DateLE(ExpansionLo(t), r.date) /\ DateLE(r.date, ExpansionHi(t))
        IN  IsYearText(t) \/ IsYearMonthText(t) \/ IsRealDayText(t) =>
               /\ resp.kind = "Bundle"
               /\ Entries(resp) = Wrapped(BpObservations(SelectSeq(bpTable, inRange)))
                                  \o Wrapped(HrObservations(SelectSeq(hrTable, inRange)))

(* C7 as amended: a date in partial form is answered 400 'Invalid date format' *)
(* with neither table queried; for a full date every bundle lists only         *)
(* observations of that day, and with no patient and no code supplied exactly  *)
(* the observations of that day.                                               *)
C7_FullDateOnly ==
    Handled("search_observations") /\ Truthy(req.date) =>
        LET t == req.date.v
            onDay(r) == r.date = ExpansionLo(t)
        IN  /\ IsYearText(t) \/ IsYearMonthText(t) =>
                 IsError(resp, 400, "Invalid date format") /\ dbLog = <<>>
            /\ IsRealDayText(t) /\ resp.kind = "Bundle" =>
                 /\ \A i \in 1..Len(Entries(resp)) :
                       Entries(resp)[i].resource.effectiveDateTime = t
                 /\ ~Truthy(req.patient) /\ ~Truthy(req.code) =>
                       Entries(resp) =
                          Wrapped(BpObservations(SelectSeq(bpTable, onDay)))
                          \o Wrapped(HrObservations(SelectSeq(hrTable, onDay)))

C7_Witness ==
    /\ Handled("search_observations")
    /\ req.date = Some(<<"2", "0", "2", "3", "-", "0", "6", "-", "1", "5">>)
    /\ ~Truthy(req.patient) /\ ~Truthy(req.code)
    /\ resp.kind = "Bundle"
    /\ resp.content.total = 2
    /\ Entries(resp)[1].resource.id = <<"b", "p", "-", "1">>
    /\ Entries(resp)[2].resource.id = <<"h", "r", "-", "1">>

-----------------------------------------------------------------------------
(* C8: search_observations answers 400, querying neither table, every supplied *)
(* patient parameter that is not exactly 'Patient/' followed by an integer,    *)
(* also when more path segments follow the integer.                            *)
C8_MalformedReferenceRejected ==
    Handled("search_observations") /\ Truthy(req.patient) /\ ~IsPatientRef(req.patient.v)
      /\ ~StorageRaised =>
        resp.kind = "OperationOutcome" /\ resp.status = 400 /\ dbLog = <<>>

-----------------------------------------------------------------------------
(* C9: read_observation answers an id that does not match ^(bp|hr)-\d+$ with   *)
(* 400 without querying the store, a matching id without a row in the table of *)
(* its prefix with 404, and a matching id with a row with 200 and the          *)
(* observation of that row, whose id is the requested id.                      *)
MatchesIdPattern(t) ==
    /\ StartsWith(t, BpPrefix) \/ StartsWith(t, HrPrefix)
    /\ Len(t) > 3
    /\ AllDigits(DropFirst(t, 3))

C9_IdClassified ==
    Handled("read_observation") /\ resp.kind # "unhandled" =>
        LET t == req.observation_id
            rows == IF StartsWith(t, BpPrefix) THEN bpTable ELSE hrTable
            hit == SelectSeq(rows, LAMBDA r : r.id = Num(DropFirst(t, 3)))
        IN  /\ ~MatchesIdPattern(t) =>
                 resp.kind = "OperationOutcome" /\ resp.status = 400 /\ dbLog = <<>>
            /\ MatchesIdPattern(t) /\ hit = <<>> =>
                 resp.kind = "OperationOutcome" /\ resp.status = 404
            /\ MatchesIdPattern(t) /\ hit # <<>> =>
                 /\ resp.kind = "Observation" /\ resp.status = 200
                 /\ resp.content.id = t
                 /\ resp.content = model_dump(IF StartsWith(t, BpPrefix)
                                               THEN bp_to_observation(hit[1])
                                               ELSE hr_to_observation(hit[1]))

-----------------------------------------------------------------------------
(* C11: for every sequence of resources both versions of to_bundle return a    *)
(* bundle whose total is the number of its entries, whose i-th entry wraps the *)
(* i-th resource (its fields that are not None, unchanged), and whose type is  *)
(* the type given, searchset when none is given; for the empty sequence the    *)
(* total is 0 and the entry sequence is empty.                                 *)
C11_BundleShape ==
    Handled("to_bundle") =>
        LET b  == resp.content
            rs == req.resources
        IN  /\ b.total = Len(b.entry)
            /\ Len(b.entry) = Len(rs)
            /\ \A i \in 1..Len(rs) :
                  LET e == b.entry[i].resource
                  IN  /\ DOMAIN b.entry[i] = {"resource"}
                      /\ e.resourceType = rs[i].resourceType
                      /\ e.id = rs[i].id
                      /\ DOMAIN e \subseteq DOMAIN rs[i]
                      /\ \A f \in DOMAIN rs[i] \ {"birthDate"} :
                            f \in DOMAIN e /\ e[f] = rs[i][f]
                      /\ "birthDate" \in DOMAIN e <=>
                            "birthDate" \in DOMAIN rs[i] /\ rs[i].birthDate.some
                      /\ "birthDate" \in DOMAIN e => e.birthDate = rs[i].birthDate.v
            /\ b.type = IF req.type_.some THEN req.type_.v ELSE "searchset"
            /\ rs = <<>> => b.total = 0 /\ b.entry = <<>>

C11_Witness ==
    /\ Handled("to_bundle")
    /\ req.module = "observation"
    /\ ~req.type_.some
    /\ Len(req.resources) = 3
    /\ req.resources[1].id = <<"h", "r", "-", "1">>
    /\ req.resources[2].id = <<"b", "p", "-", "1">>
    /\ req.resources[3].resourceType = "Patient"
    /\ resp.content.type = "searchset"
    /\ resp.content.total = 3
    /\ resp.content.entry[1].resource.id = <<"h", "r", "-", "1">>
    /\ resp.content.entry[3].resource.resourceType = "Patient"

-----------------------------------------------------------------------------
(* C12: search_patients returns a bundle of exactly the stored patients that   *)
(* satisfy every supplied filter, in storage order: family when the family     *)
(* name contains the fragment as a substring, given when the given name does,  *)
(* both without regard to case, birthdate when the date of birth lies in the   *)
(* expansion; an absent filter constrains nothing; total is their number.      *)
ContainsIgnoringCase(text, fragment) ==
    \E k \in 0..(Len(text) - Len(fragment)) :
        \A j \in 1..Len(fragment) : Lower(text[k + j]) = Lower(fragment[j])

C12_ExactlyTheMatchingPatients ==
    Handled("search_patients") /\ resp.kind = "Bundle"
      /\ (req.birthdate.some =>
             IsYearText(req.birthdate.v) \/ IsYearMonthText(req.birthdate.v)
             \/ IsRealDayText(req.birthdate.v)) =>
        LET satisfies(r) ==
                /\ Truthy(req.family) => ContainsIgnoringCase(r.last_name, req.family.v)
                /\ Truthy(req.given) => ContainsIgnoringCase(r.first_name, req.given.v)
                /\ req.birthdate.some =>
                      /\ DateLE(ExpansionLo(req.birthdate.v), r.date_of_birth)
                      /\ DateLE(r.date_of_birth, ExpansionHi(req.birthdate.v))
            matching == SelectSeq(patients, satisfies)
        IN  /\ resp.content.total = Len(matching)
            /\ Entries(resp) = Wrapped(PatientResources(matching))

-----------------------------------------------------------------------------
(* C13: every response that carries a resource, a bundle or an operation       *)
(* outcome, whichever handler sent it, has the content type                    *)
(* application/fhir+json.                                                      *)
C13_FhirContentType ==
    pc = "done" /\ req.op \in {"read_patient", "search_patients", "create_patient",
                               "read_observation", "search_observations",
                               "capability_statement"}
      /\ resp.kind \in {"Patient", "Observation", "Bundle", "CapabilityStatement",
                        "OperationOutcome"} =>
        resp.media = FhirJson

-----------------------------------------------------------------------------
(* C14: whenever search_observations is given a patient reference 'Patient/n'  *)
(* with n an integer, 0 included, every entry of the bundle it returns has the *)
(* subject 'Patient/n': a supplied patient filter is never dropped.            *)
C14_PatientFilterApplied ==
    Handled("search_observations") /\ Truthy(req.patient) /\ IsPatientRef(req.patient.v)
      /\ resp.kind = "Bundle" =>
        LET n == PyInt(DropFirst(req.patient.v, Len(PatientPrefix))).val
        IN  \A i \in 1..Len(Entries(resp)) :
              Entries(resp)[i].resource.subject = PatientPrefix \o IntStr(n)

-----------------------------------------------------------------------------
(* C15: the Location header of a 201 response of create_patient names the path *)
(* at which the created patient can be read: GET on exactly that path, on the  *)
(* same application with its routes under /fhir, answers 200 with the Patient  *)
(* whose id, name and birthDate are those of the 201 body.                     *)
C15_LocationReadable ==
    Handled("create_patient") /\ resp.status = 201 =>
        LET got == app_get(resp.headers.Location, patients, bpTable, hrTable, TRUE).resp
        IN  /\ got.status = 200
            /\ got.kind = "Patient"
            /\ got.content.id = resp.content.id
            /\ got.content.name = resp.content.name
            /\ got.content.birthDate = resp.content.birthDate

-----------------------------------------------------------------------------
(* C16: in every search_observations request that ends in a bundle each table  *)
(* is queried at most once, the blood-pressure query and the mapping of every  *)
(* row it returned come before the heart-rate query, and the bundle lists the  *)
(* observations 'bp-<id>' of the returned blood-pressure rows, in the order    *)
(* returned, and after them the observations 'hr-<id>' of the returned         *)
(* heart-rate rows, in the order returned; total is the number of both.        *)
Count(log, event) == Cardinality({i \in 1..Len(log) : log[i] = event})

C16_BloodPressureBeforeHeartRate ==
    Handled("search_observations") /\ resp.kind = "Bundle" =>
        LET bpRows == IF query.bp.excluded THEN <<>>
                      ELSE SelectSeq(bpTable, LAMBDA r : ObsRowMatches(query.bp, r))
            hrRows == IF query.hr.excluded THEN <<>>
                      ELSE SelectSeq(hrTable, LAMBDA r : ObsRowMatches(query.hr, r))
            nb == Len(bpRows)
            nh == Len(hrRows)
        IN  /\ Count(dbLog, "select blood_pressure") <= 1
            /\ Count(dbLog, "select heart_rate") <= 1
            /\ Count(dbLog, "bp_to_observation") = nb
            /\ Count(dbLog, "hr_to_observation") = nh
            /\ \A i, j \in 1..Len(dbLog) :
                  /\ dbLog[i] \in {"select blood_pressure", "bp_to_observation"}
                  /\ dbLog[j] \in {"select heart_rate", "hr_to_observation"}
                  => i < j
            /\ resp.content.total = nb + nh
            /\ Len(Entries(resp)) = nb + nh
            /\ \A i \in 1..nb :
                  Entries(resp)[i].resource.id = BpPrefix \o IntStr(bpRows[i].id)
            /\ \A i \in 1..nh :
                  Entries(resp)[nb + i].resource.id = HrPrefix \o IntStr(hrRows[i].id)

C16_Witness ==
    /\ Handled("search_observations")
    /\ ~Truthy(req.patient) /\ ~Truthy(req.code) /\ ~Truthy(req.date)
    /\ bpTable = SeedBp /\ hrTable = SeedHr
    /\ resp.kind = "Bundle"
    /\ resp.content.total = 4
    /\ dbLog = <<"select blood_pressure", "bp_to_observation", "bp_to_observation",
                 "select heart_rate", "hr_to_observation", "hr_to_observation">>
    /\ Entries(resp)[1].resource.id = <<"b", "p", "-", "1">>
    /\ Entries(resp)[2].resource.id = <<"b", "p", "-", "2">>
    /\ Entries(resp)[3].resource.id = <<"h", "r", "-", "1">>
    /\ Entries(resp)[4].resource.id = <<"h", "r", "-", "2">>

=============================================================================
